---- MODULE Spec2Model ----
(***************************************************************************)
(* WebSocket side-car management of edge_frontend/src-tauri/src/lib.rs:    *)
(* the handle slot WebSocketState(Arc<Mutex<Option<WebSocketSidecar>>>),   *)
(* the commands start_websocket_sidecar and stop_websocket_sidecar, the    *)
(* readiness wait, the port reaper and Drop for WebSocketSidecar.          *)
(* A call of a command is a process; the child processes, the fixed port   *)
(* and an unrelated process that may listen on it are the environment.     *)
(***************************************************************************)
EXTENDS Integers, FiniteSets, Sequences, TLC

\* ------------------------------------------------------------------ bounds
\* Number of command invocations (start or stop) in one run.
MaxCalls == 3
\* The readiness timeout counted in poll intervals (10 s / 100 ms, scaled).
TimeoutPolls == 2

\* --------------------------------------------------------------- constants
WEBSOCKET_PORT == 9528
ReadyTimeoutSeconds == 10

Calls == 1..MaxCalls
\* None of Option<WebSocketSidecar>, and "no call" as holder of the mutex.
None == 0
\* Identity of the unrelated process that may listen on the port.
Foreign == MaxCalls + 1

VARIABLES
    is_dev_mode,   \* cfg!(debug_assertions)
    force_python,  \* TODOFORAI_FORCE_PYTHON == "1"
    force_production,  \* TODOFORAI_FORCE_PRODUCTION == "1"
    platform,      \* cfg!(target_os): "windows" or "unix"
    binOut,        \* what launching the compiled sidecar does on this host
    pyOut,         \* what launching the python script does on this host
    foreign,       \* a process left on the port by an earlier run of the
                   \* application, or any other one: "absent" or "listening"
    slot,          \* *websocket_state.0 : None or the call whose child it owns
    lock,          \* holder of the Mutex, None when free
    op,            \* op[c]: the command call c invokes
    pc,            \* pc[c]: position of call c in its command
    res,           \* res[c]: what call c returned
    attempts,      \* attempts[c]: the variants whose launch call c attempted
    elapsed,       \* elapsed[c]: start_time.elapsed() in poll intervals
    probe0,        \* probe0[c]: what the pre-spawn is_port_in_use returned
    child,         \* child[c]: the process spawned by call c
    hkills,        \* hkills[c]: child.kill() calls made on child c's handle
    hkillErr,      \* hkillErr[c]: a child.kill() on child c returned Err
    took,          \* took[c]: the child whose handle stop call c took
    reapOut,       \* reapOut[c]: how stop call c's reaper run went
    everStored,    \* children whose handle was ever put in the slot
    seqBegin,      \* seqBegin[c]: every earlier call had returned when c began
    reaped         \* children the port reaper killed (kill -9, taskkill /F)

vars == <<is_dev_mode, force_python, force_production, platform, binOut,
          pyOut, foreign, slot, lock, op, pc, res, attempts, elapsed, probe0,
          child, hkills, hkillErr, took, reapOut, everStored, seqBegin,
          reaped>>

envVars == <<is_dev_mode, force_python, force_production, platform, binOut, pyOut>>

\* ----------------------------------------------------------------- results
NoRes == [tag |-> "none", port |-> 0, text |-> "", causes |-> {}, secs |-> 0]
OkPort == [tag |-> "Ok", port |-> WEBSOCKET_PORT, text |-> "", causes |-> {}, secs |-> 0]
OkUnit == [tag |-> "Ok", port |-> 0, text |-> "", causes |-> {}, secs |-> 0]
ErrMsg(text, causes) ==
    [tag |-> "Err", port |-> 0, text |-> text, causes |-> causes, secs |-> 0]
TimeoutErr(port, timeout_seconds) ==
    [tag |-> "Err", port |-> port,
     text |-> "Timeout waiting for sidecar to be ready",
     causes |-> {}, secs |-> timeout_seconds]

NoChild == [st |-> "none", variant |-> "none"]

\* ------------------------------------------------------------ pure helpers
\* UsePython that lets a development build ignore the production override.
UsePython_IgnoresProduction(dev, fpython, fproduction) ==
    dev \/ fpython

\* let use_python = (is_dev_mode && !force_production) || force_python;
UsePython(dev, fpython, fproduction) ==
    (dev /\ ~fproduction) \/ fpython

use_python == UsePython(is_dev_mode, force_python, force_production)

\* The processes accepting connections on 127.0.0.1:WEBSOCKET_PORT.
Listeners ==
    {c \in Calls : child[c].st = "listening"}
        \cup (IF foreign = "listening" THEN {Foreign} ELSE {})

\* TcpStream::connect_timeout(127.0.0.1:port, 100 ms).is_ok()
is_port_in_use == Listeners # {}

\* The child processes and what was done to them through their handles.
Procs == [child |-> child, hkills |-> hkills, hkillErr |-> hkillErr]

\* WebSocketSidecar { child: Some(ch) }
Sidecar(ch) == [child |-> ch]

\* child.kill() on the handle of child ch, in process table k: the process
\* is terminated; the call returns Err when the process is gone already.
Kill(k, ch) ==
    [child |-> [k.child EXCEPT ![ch] = [@ EXCEPT !.st = "dead"]],
     hkills |-> [k.hkills EXCEPT ![ch] = @ + 1],
     hkillErr |-> [k.hkillErr EXCEPT ![ch] = @ \/ k.child[ch].st = "dead"]]

\* impl Drop for WebSocketSidecar:
\* if let Some(child) = self.child.take() { let _ = child.kill(); }
DropSidecar(k, sidecar) ==
    IF sidecar.child = None THEN k ELSE Kill(k, sidecar.child)

\* KillManaged that takes the sidecar out of the slot and never kills.
KillManaged_NoKill(k, taken) == k

\* KillManaged that kills through a reference, leaving the child in the
\* sidecar for Drop to kill again.
KillManaged_NoChildTake(k, taken) ==
    IF taken = None THEN k
    ELSE LET sidecar == Sidecar(taken)
             killed == Kill(k, sidecar.child)
         IN  DropSidecar(killed, sidecar)

\* The body of stop's `if let Some(mut sidecar) = state_lock.take()`:
\* if let Some(child) = sidecar.child.take() { let _ = child.kill(); }
\* and the sidecar, now without a child, is dropped at the end of the block.
KillManaged(k, taken) ==
    IF taken = None THEN k
    ELSE LET sidecar == Sidecar(taken)
             killed == Kill(k, sidecar.child)
         IN  DropSidecar(killed, [sidecar EXCEPT !.child = None])

\* *state_lock = Some(sidecar): the value the slot held is dropped.
Overwrite(k, old) ==
    IF old = None THEN k ELSE DropSidecar(k, Sidecar(old))

SetProcs(k) ==
    /\ child' = k.child
    /\ hkills' = k.hkills
    /\ hkillErr' = k.hkillErr

\* The state after run() has built the application: an empty slot, no call
\* made yet.  The build mode, the platform and what a launch of each variant
\* does on the host are fixed for the run.  The two override variables are
\* unset, so that use_python follows the build mode: the launch depends on
\* them through use_python only, and both of its values occur.
Init ==
    /\ is_dev_mode \in BOOLEAN
    /\ force_python = FALSE
    /\ force_production = FALSE
    /\ platform \in {"unix", "windows"}
    /\ binOut \in {"ok", "cmd_err", "spawn_err"}
    /\ pyOut \in {"ok", "spawn_err"}
    /\ foreign \in {"absent", "listening"}
    /\ slot = None
    /\ lock = None
    /\ op = [c \in Calls |-> "none"]
    /\ pc = [c \in Calls |-> "idle"]
    /\ res = [c \in Calls |-> NoRes]
    /\ attempts = [c \in Calls |-> <<>>]
    /\ elapsed = [c \in Calls |-> 0]
    /\ probe0 = [c \in Calls |-> "na"]
    /\ child = [c \in Calls |-> NoChild]
    /\ hkills = [c \in Calls |-> 0]
    /\ hkillErr = [c \in Calls |-> FALSE]
    /\ took = [c \in Calls |-> None]
    /\ reapOut = [c \in Calls |-> "na"]
    /\ everStored = {}
    /\ seqBegin = [c \in Calls |-> FALSE]
    /\ reaped = {}

\* ------------------------------------------------------ command dispatching
\* A command is invoked (tauri::generate_handler!, or the CloseRequested
\* hook for stop).  Calls are numbered in the order they begin.
Begin(c, o) ==
    /\ pc[c] = "idle"
    /\ \A d \in Calls : d < c => pc[d] # "idle"
    /\ op' = [op EXCEPT ![c] = o]
    /\ pc' = [pc EXCEPT ![c] = IF o = "start" THEN "s_check" ELSE "t_take"]
    /\ seqBegin' = [seqBegin EXCEPT ![c] = \A d \in Calls : d < c => pc[d] = "done"]
    /\ UNCHANGED <<envVars, foreign, slot, lock, res, attempts, elapsed,
                   probe0, child, hkills, hkillErr, took, reapOut,
                   everStored, reaped>>

\* ------------------------------------------------- start_websocket_sidecar
\* StartCheck without the is_some() short-circuit.
StartCheck_NoShortCircuit(c) ==
    /\ pc[c] = "s_check"
    /\ lock = None
    /\ pc' = [pc EXCEPT ![c] = "s_probe"]
    /\ UNCHANGED <<envVars, foreign, slot, lock, op, res, attempts, elapsed,
                   probe0, child, hkills, hkillErr, took, reapOut,
                   everStored, seqBegin, reaped>>

\* { let state_lock = ...lock().unwrap(); if state_lock.is_some() { return Ok } }
StartCheck(c) ==
    /\ pc[c] = "s_check"
    /\ lock = None
    /\ IF slot # None
         THEN /\ res' = [res EXCEPT ![c] = OkPort]
              /\ pc' = [pc EXCEPT ![c] = "done"]
         ELSE /\ pc' = [pc EXCEPT ![c] = "s_probe"]
              /\ UNCHANGED res
    /\ UNCHANGED <<envVars, foreign, slot, lock, op, attempts, elapsed,
                   probe0, child, hkills, hkillErr, took, reapOut,
                   everStored, seqBegin, reaped>>

\* StartProbe that probes the port and goes on to spawn whatever it found.
StartProbe_IgnoresProbe(c) ==
    /\ pc[c] = "s_probe"
    /\ probe0' = [probe0 EXCEPT ![c] = IF is_port_in_use THEN "busy" ELSE "free"]
    /\ pc' = [pc EXCEPT ![c] = "s_spawn"]
    /\ UNCHANGED <<envVars, foreign, slot, lock, op, res, attempts, elapsed,
                   child, hkills, hkillErr, took, reapOut, everStored,
                   seqBegin, reaped>>

\* if is_port_in_use(WEBSOCKET_PORT) { return Ok(WEBSOCKET_PORT); }
StartProbe(c) ==
    /\ pc[c] = "s_probe"
    /\ IF is_port_in_use
         THEN /\ probe0' = [probe0 EXCEPT ![c] = "busy"]
              /\ res' = [res EXCEPT ![c] = OkPort]
              /\ pc' = [pc EXCEPT ![c] = "done"]
         ELSE /\ probe0' = [probe0 EXCEPT ![c] = "free"]
              /\ pc' = [pc EXCEPT ![c] = "s_spawn"]
              /\ UNCHANGED res
    /\ UNCHANGED <<envVars, foreign, slot, lock, op, attempts, elapsed,
                   child, hkills, hkillErr, took, reapOut, everStored,
                   seqBegin, reaped>>

\* The python branch: app.shell().command(python).spawn().map_err(..)?
LaunchPython ==
    IF pyOut = "ok"
      THEN [variant |-> "script", tried |-> <<"script">>, err |-> NoRes]
      ELSE [variant |-> "none", tried |-> <<"script">>,
            err |-> ErrMsg("Failed to start Python script", {"python_spawn"})]

\* LaunchSidecar that returns the command-creation error without a fallback.
LaunchSidecar_NoFallback ==
    CASE binOut = "ok" ->
           [variant |-> "binary", tried |-> <<"binary">>, err |-> NoRes]
      [] binOut = "spawn_err" ->
           [variant |-> "none", tried |-> <<"binary">>,
            err |-> ErrMsg("Failed to spawn sidecar", {"sidecar_spawn"})]
      [] binOut = "cmd_err" ->
           [variant |-> "none", tried |-> <<"binary">>,
            err |-> ErrMsg("Failed to create sidecar command", {"sidecar_cmd"})]

\* The sidecar branch: match app.shell().sidecar(..) { Ok => spawn()?,
\* Err => python fallback spawn()? }
LaunchSidecar ==
    CASE binOut = "ok" ->
           [variant |-> "binary", tried |-> <<"binary">>, err |-> NoRes]
      [] binOut = "spawn_err" ->
           [variant |-> "none", tried |-> <<"binary">>,
            err |-> ErrMsg("Failed to spawn sidecar", {"sidecar_spawn"})]
      [] binOut = "cmd_err" ->
           IF pyOut = "ok"
             THEN [variant |-> "script", tried |-> <<"binary", "script">>,
                   err |-> NoRes]
             ELSE [variant |-> "none", tried |-> <<"binary", "script">>,
                   err |-> ErrMsg("Failed to start Python script fallback",
                                  {"python_spawn"})]

\* let (mut rx, child) = if use_python { .. } else { .. };
Launch == IF use_python THEN LaunchPython ELSE LaunchSidecar

\* StartSpawn that drops the `?` after spawn: a failed launch goes on to the
\* readiness wait.
StartSpawn_IgnoresError(c) ==
    /\ pc[c] = "s_spawn"
    /\ attempts' = [attempts EXCEPT ![c] = Launch.tried]
    /\ child' = [child EXCEPT ![c] =
                    IF Launch.variant # "none"
                      THEN [st |-> "running", variant |-> Launch.variant]
                      ELSE @]
    /\ pc' = [pc EXCEPT ![c] = "s_wait"]
    /\ UNCHANGED <<envVars, foreign, slot, lock, op, res, elapsed, probe0,
                   hkills, hkillErr, took, reapOut, everStored, seqBegin,
                   reaped>>

\* StartSpawn that goes from the spawn to the store without the readiness wait.
StartSpawn_SkipsWait(c) ==
    /\ pc[c] = "s_spawn"
    /\ attempts' = [attempts EXCEPT ![c] = Launch.tried]
    /\ IF Launch.variant # "none"
         THEN /\ child' = [child EXCEPT ![c] =
                             [st |-> "running", variant |-> Launch.variant]]
              /\ pc' = [pc EXCEPT ![c] = "s_store"]
              /\ UNCHANGED res
         ELSE /\ res' = [res EXCEPT ![c] = Launch.err]
              /\ pc' = [pc EXCEPT ![c] = "done"]
              /\ UNCHANGED child
    /\ UNCHANGED <<envVars, foreign, slot, lock, op, elapsed, probe0, hkills,
                   hkillErr, took, reapOut, everStored, seqBegin, reaped>>

\* The whole of the launch: mode selection, spawn, output relay.
StartSpawn(c) ==
    /\ pc[c] = "s_spawn"
    /\ attempts' = [attempts EXCEPT ![c] = Launch.tried]
    /\ IF Launch.variant # "none"
         THEN /\ child' = [child EXCEPT ![c] =
                             [st |-> "running", variant |-> Launch.variant]]
              /\ pc' = [pc EXCEPT ![c] = "s_wait"]
              /\ UNCHANGED res
         ELSE /\ res' = [res EXCEPT ![c] = Launch.err]
              /\ pc' = [pc EXCEPT ![c] = "done"]
              /\ UNCHANGED child
    /\ UNCHANGED <<envVars, foreign, slot, lock, op, elapsed, probe0, hkills,
                   hkillErr, took, reapOut, everStored, seqBegin, reaped>>

\* wait_for_sidecar_ready that reports success without looking at the probe.
wait_for_sidecar_ready_SkipsProbe(c, port, timeout_seconds) ==
    IF elapsed[c] < TimeoutPolls
      THEN /\ pc' = [pc EXCEPT ![c] = "s_store"]
           /\ UNCHANGED <<elapsed, res>>
      ELSE /\ res' = [res EXCEPT ![c] = TimeoutErr(port, timeout_seconds)]
           /\ pc' = [pc EXCEPT ![c] = "done"]
           /\ UNCHANGED elapsed

\* wait_for_sidecar_ready with `<=` for `<`: one probe after the timeout.
wait_for_sidecar_ready_OneMore(c, port, timeout_seconds) ==
    IF elapsed[c] <= TimeoutPolls
      THEN IF is_port_in_use
             THEN /\ pc' = [pc EXCEPT ![c] = "s_store"]
                  /\ UNCHANGED <<elapsed, res>>
             ELSE /\ elapsed' = [elapsed EXCEPT ![c] = @ + 1]
                  /\ UNCHANGED <<pc, res>>
      ELSE /\ res' = [res EXCEPT ![c] = TimeoutErr(port, timeout_seconds)]
           /\ pc' = [pc EXCEPT ![c] = "done"]
           /\ UNCHANGED elapsed

\* One turn of the loop of wait_for_sidecar_ready, and its exit:
\* while start_time.elapsed() < timeout { if is_port_in_use(port) { return Ok }
\* sleep(100ms) }  Err(format!("Timeout ..."))
wait_for_sidecar_ready(c, port, timeout_seconds) ==
    IF elapsed[c] < TimeoutPolls
      THEN IF is_port_in_use
             THEN /\ pc' = [pc EXCEPT ![c] = "s_store"]
                  /\ UNCHANGED <<elapsed, res>>
             ELSE /\ elapsed' = [elapsed EXCEPT ![c] = @ + 1]
                  /\ UNCHANGED <<pc, res>>
      ELSE /\ res' = [res EXCEPT ![c] = TimeoutErr(port, timeout_seconds)]
           /\ pc' = [pc EXCEPT ![c] = "done"]
           /\ UNCHANGED elapsed

\* wait_for_sidecar_ready(WEBSOCKET_PORT, 10).await?;
StartPoll(c) ==
    /\ pc[c] = "s_wait"
    /\ wait_for_sidecar_ready(c, WEBSOCKET_PORT, ReadyTimeoutSeconds)
    /\ UNCHANGED <<envVars, foreign, slot, lock, op, attempts, probe0,
                   child, hkills, hkillErr, took, reapOut, everStored,
                   seqBegin, reaped>>

\* { let mut state_lock = ...; *state_lock = Some(WebSocketSidecar{..}); } Ok(PORT)
StartStore(c) ==
    /\ pc[c] = "s_store"
    /\ lock = None
    /\ slot' = c
    /\ SetProcs(Overwrite(Procs, slot))
    /\ everStored' = everStored \cup {c}
    /\ res' = [res EXCEPT ![c] = OkPort]
    /\ pc' = [pc EXCEPT ![c] = "done"]
    /\ UNCHANGED <<envVars, foreign, lock, op, attempts, elapsed, probe0,
                   took, reapOut, seqBegin, reaped>>

\* -------------------------------------------------- stop_websocket_sidecar
\* StopTake that reads the slot (as_mut) where the code takes it.
StopTake_NoTake(c) ==
    /\ pc[c] = "t_take"
    /\ lock = None
    /\ lock' = c
    /\ took' = [took EXCEPT ![c] = slot]
    /\ slot' = slot
    /\ SetProcs(KillManaged(Procs, slot))
    /\ pc' = [pc EXCEPT ![c] = "t_reap"]
    /\ UNCHANGED <<envVars, foreign, op, res, attempts, elapsed, probe0,
                   reapOut, everStored, seqBegin, reaped>>

\* let mut state_lock = ...lock().unwrap();
\* if let Some(mut sidecar) = state_lock.take() {
\*     if let Some(child) = sidecar.child.take() { let _ = child.kill(); } }
StopTake(c) ==
    /\ pc[c] = "t_take"
    /\ lock = None
    /\ lock' = c
    /\ took' = [took EXCEPT ![c] = slot]
    /\ slot' = None
    /\ SetProcs(KillManaged(Procs, slot))
    /\ pc' = [pc EXCEPT ![c] = "t_reap"]
    /\ UNCHANGED <<envVars, foreign, op, res, attempts, elapsed, probe0,
                   reapOut, everStored, seqBegin, reaped>>

\* What one run of kill_process_on_port can do: the enumeration (netstat,
\* lsof) fails, or it works and the kill of a listener fails, or it works.
ReapOutcomes ==
    {"ok", "enum_fail"} \cup (IF Listeners # {} THEN {"kill_fail"} ELSE {})

\* fn kill_process_on_port(port) -> Result<(), String>
kill_process_on_port(out) ==
    IF out = "enum_fail" /\ platform = "windows"
      THEN ErrMsg("Failed to run netstat", {"netstat"})
      ELSE OkUnit

\* StopReap whose reaper enumerates the listeners and kills none of them.
StopReap_KillsNothing(c) ==
    /\ pc[c] = "t_reap"
    /\ lock = c
    /\ \E out \in ReapOutcomes :
         /\ reapOut' = [reapOut EXCEPT ![c] = out]
         /\ res' = [res EXCEPT ![c] = kill_process_on_port(out)]
    /\ lock' = None
    /\ pc' = [pc EXCEPT ![c] = "done"]
    /\ UNCHANGED <<envVars, foreign, slot, op, attempts, elapsed, probe0,
                   child, hkills, hkillErr, took, everStored, seqBegin,
                   reaped>>

\* StopReap that returns without releasing the guard (a leaked MutexGuard).
StopReap_KeepsLock(c) ==
    /\ pc[c] = "t_reap"
    /\ lock = c
    /\ \E out \in ReapOutcomes :
         LET hit == IF out = "ok" THEN Listeners ELSE {}
         IN  /\ reapOut' = [reapOut EXCEPT ![c] = out]
             /\ child' = [d \in Calls |->
                            IF d \in hit THEN [child[d] EXCEPT !.st = "dead"]
                            ELSE child[d]]
             /\ foreign' = IF Foreign \in hit THEN "absent" ELSE foreign
             /\ reaped' = reaped \cup (hit \cap Calls)
             /\ res' = [res EXCEPT ![c] = kill_process_on_port(out)]
    /\ pc' = [pc EXCEPT ![c] = "done"]
    /\ UNCHANGED <<envVars, slot, lock, op, attempts, elapsed, probe0, hkills,
                   hkillErr, took, everStored, seqBegin>>

\* kill_process_on_port(WEBSOCKET_PORT)?; Ok(())   (the guard is released)
StopReap(c) ==
    /\ pc[c] = "t_reap"
    /\ lock = c
    /\ \E out \in ReapOutcomes :
         LET hit == IF out = "ok" THEN Listeners ELSE {}
         IN  /\ reapOut' = [reapOut EXCEPT ![c] = out]
             /\ child' = [d \in Calls |->
                            IF d \in hit THEN [child[d] EXCEPT !.st = "dead"]
                            ELSE child[d]]
             /\ foreign' = IF Foreign \in hit THEN "absent" ELSE foreign
             /\ reaped' = reaped \cup (hit \cap Calls)
             /\ res' = [res EXCEPT ![c] = kill_process_on_port(out)]
    /\ lock' = None
    /\ pc' = [pc EXCEPT ![c] = "done"]
    /\ UNCHANGED <<envVars, slot, op, attempts, elapsed, probe0, hkills,
                   hkillErr, took, everStored, seqBegin>>

\* -------------------------------------------------------------- environment
\* A spawned child binds the port (its --port argument) when the port is free.
ChildListen(ch) ==
    /\ child[ch].st = "running"
    /\ ~is_port_in_use
    /\ child' = [child EXCEPT ![ch] = [@ EXCEPT !.st = "listening"]]
    /\ UNCHANGED <<envVars, foreign, slot, lock, op, pc, res, attempts,
                   elapsed, probe0, hkills, hkillErr, took, reapOut,
                   everStored, seqBegin, reaped>>

\* A child exits by itself (a crash, a failed bind).
ChildExit(ch) ==
    /\ child[ch].st \in {"running", "listening"}
    /\ child' = [child EXCEPT ![ch] = [@ EXCEPT !.st = "dead"]]
    /\ UNCHANGED <<envVars, foreign, slot, lock, op, pc, res, attempts,
                   elapsed, probe0, hkills, hkillErr, took, reapOut,
                   everStored, seqBegin, reaped>>

\* The unrelated process goes away by itself.
ForeignExit ==
    /\ foreign = "listening"
    /\ foreign' = "absent"
    /\ UNCHANGED <<envVars, slot, lock, op, pc, res, attempts, elapsed,
                   probe0, child, hkills, hkillErr, took, reapOut,
                   everStored, seqBegin, reaped>>

Next ==
    \/ \E c \in Calls, o \in {"start", "stop"} : Begin(c, o)
    \/ \E c \in Calls : StartCheck(c)
    \/ \E c \in Calls : StartProbe(c)
    \/ \E c \in Calls : StartSpawn(c)
    \/ \E c \in Calls : StartPoll(c)
    \/ \E c \in Calls : StartStore(c)
    \/ \E c \in Calls : StopTake(c)
    \/ \E c \in Calls : StopReap(c)
    \/ \E ch \in Calls : ChildListen(ch)
    \/ \E ch \in Calls : ChildExit(ch)
    \/ ForeignExit

Spec == Init /\ [][Next]_vars

\* The same application with the two override variables set or unset in
\* every combination: let force_python = env::var("TODOFORAI_FORCE_PYTHON")
\* == "1", let force_production = env::var("TODOFORAI_FORCE_PRODUCTION") == "1".
InitMode ==
    /\ is_dev_mode \in BOOLEAN
    /\ force_python \in BOOLEAN
    /\ force_production \in BOOLEAN
    /\ platform \in {"unix", "windows"}
    /\ binOut \in {"ok", "cmd_err", "spawn_err"}
    /\ pyOut \in {"ok", "spawn_err"}
    /\ foreign \in {"absent", "listening"}
    /\ slot = None
    /\ lock = None
    /\ op = [c \in Calls |-> "none"]
    /\ pc = [c \in Calls |-> "idle"]
    /\ res = [c \in Calls |-> NoRes]
    /\ attempts = [c \in Calls |-> <<>>]
    /\ elapsed = [c \in Calls |-> 0]
    /\ probe0 = [c \in Calls |-> "na"]
    /\ child = [c \in Calls |-> NoChild]
    /\ hkills = [c \in Calls |-> 0]
    /\ hkillErr = [c \in Calls |-> FALSE]
    /\ took = [c \in Calls |-> None]
    /\ reapOut = [c \in Calls |-> "na"]
    /\ everStored = {}
    /\ seqBegin = [c \in Calls |-> FALSE]
    /\ reaped = {}

SpecMode == InitMode /\ [][Next]_vars

\* The steps of call c.  A command runs on a thread of the runtime's pool
\* (start as an async task), so a call that can take a step keeps being
\* scheduled: a call blocked in lock() is woken when the guard is released,
\* and the sleep of the readiness loop ends.
CallStep(c) ==
    \/ StartCheck(c)
    \/ StartProbe(c)
    \/ StartSpawn(c)
    \/ StartPoll(c)
    \/ StartStore(c)
    \/ StopTake(c)
    \/ StopReap(c)

Fairness == \A c \in Calls : WF_vars(CallStep(c))

FairSpec == Init /\ [][Next]_vars /\ Fairness

TypeOK ==
    /\ slot \in Calls \cup {None}
    /\ lock \in Calls \cup {None}
    /\ \A c \in Calls : elapsed[c] \in 0..TimeoutPolls

\* ------------------------------------------------------------------ claims
IsStart(c) == op[c] = "start"
IsStop(c) == op[c] = "stop"
Done(c) == pc[c] = "done"
Spawned(c) == child[c].st # "none"
Alive(c) == child[c].st \in {"running", "listening"}
NSpawned(c) == IF Spawned(c) THEN 1 ELSE 0

\* Every stop call made so far had returned before call c began.
NoStopSince(c) == \A s \in Calls : IsStop(s) => (s < c /\ seqBegin[c])

\* c1 and c2 are start calls that have returned, c2 began after every
\* earlier call (c1 among them) had returned, c1 returned success, and no
\* stop ran since c1 began.
SeqStarts(c1, c2) ==
    /\ c1 < c2
    /\ IsStart(c1) /\ IsStart(c2)
    /\ Done(c1) /\ Done(c2)
    /\ seqBegin[c2]
    /\ res[c1].tag = "Ok"
    /\ NoStopSince(c1)

\* C1 as stated: two start calls in sequence, no stop in between, both
\* return the fixed port and exactly one child is spawned across the two.
C1_AsStated ==
    \A c1 \in Calls, c2 \in Calls :
        SeqStarts(c1, c2) =>
            /\ res[c1] = OkPort
            /\ res[c2] = OkPort
            /\ NSpawned(c1) + NSpawned(c2) = 1

\* C1 (amended): two start calls in sequence with no stop in between spawn
\* at most one child in total; when the first call stored a handle (it
\* found the slot empty and the port free and spawned the sidecar), both
\* return the fixed port, the second spawns nothing and the total is
\* exactly one.
C1_SequentialStart ==
    \A c1 \in Calls, c2 \in Calls :
        SeqStarts(c1, c2) =>
            /\ res[c1] = OkPort
            /\ NSpawned(c1) + NSpawned(c2) <= 1
            /\ c1 \in everStored =>
                   /\ res[c2] = OkPort
                   /\ ~Spawned(c2)
                   /\ NSpawned(c1) + NSpawned(c2) = 1

C1_Witness ==
    \E c1 \in Calls, c2 \in Calls :
        /\ SeqStarts(c1, c2)
        /\ c1 \in everStored
        /\ slot = c1
        /\ res[c2] = OkPort

\* C2 as stated: concurrent start calls never both spawn; two start calls
\* never hold, at the same time, a live child each that is spawned and
\* not yet stored.
C2_AsStated ==
    \A c1 \in Calls, c2 \in Calls :
        (c1 # c2 /\ IsStart(c1) /\ IsStart(c2)
           /\ pc[c1] \in {"s_wait", "s_store"} /\ pc[c2] \in {"s_wait", "s_store"})
        => ~(Alive(c1) /\ Alive(c2))

\* C3: a start call whose pre-spawn probe found the port accepting
\* connections has returned the fixed port, spawned nothing, attempted no
\* launch and never put a handle in the slot.
C3_PortOccupied ==
    \A c \in Calls :
        probe0[c] = "busy" =>
            /\ Done(c)
            /\ res[c] = OkPort
            /\ ~Spawned(c)
            /\ attempts[c] = <<>>
            /\ c \notin everStored
            /\ slot # c

C3_Witness ==
    \E c \in Calls :
        /\ probe0[c] = "busy"
        /\ Done(c)
        /\ foreign = "listening"
        /\ slot = None
        /\ everStored = {}

Primary == IF use_python THEN "script" ELSE "binary"
Alternate == IF use_python THEN "binary" ELSE "script"
PrimaryFails == IF use_python THEN pyOut # "ok" ELSE binOut # "ok"
AlternateOk == IF use_python THEN binOut = "ok" ELSE pyOut = "ok"
Count(seq, x) == Cardinality({i \in DOMAIN seq : seq[i] = x})
Last(seq) == seq[Len(seq)]
\* The failure a launch of variant v ends in on this host.
CauseOf(v) ==
    IF v = "script" THEN "python_spawn"
    ELSE IF binOut = "cmd_err" THEN "sidecar_cmd" ELSE "sidecar_spawn"
\* The one case with a fallback: creating the sidecar command failed.
FallsBack == ~use_python /\ binOut = "cmd_err"

C6_ReadinessTimeout ==
    \A c \in Calls :
        (Spawned(c) /\ elapsed[c] >= TimeoutPolls) =>
            \/ pc[c] = "s_wait"
            \/ /\ Done(c)
               /\ res[c] = TimeoutErr(WEBSOCKET_PORT, ReadyTimeoutSeconds)
               /\ res[c].port = 9528 /\ res[c].secs = 10
               /\ c \notin everStored
               /\ slot # c
               /\ hkills[c] = 0

C6_Witness ==
    \E c \in Calls :
        /\ Done(c)
        /\ res[c] = TimeoutErr(WEBSOCKET_PORT, ReadyTimeoutSeconds)
        /\ Alive(c)
        /\ slot = None

\* The step of stop call s that locks the registry and takes the slot, and
\* the step that runs the reaper and returns.
StopTakes(s) == pc[s] = "t_take" /\ pc'[s] = "t_reap"
StopReturns(s) == pc[s] = "t_reap" /\ pc'[s] = "done"

\* C7 as stated: a stop that finds the slot empty returns success and does
\* nothing: the slot stays empty, no kill is sent, no process is terminated.
\* (The error returned on Windows when netstat cannot be run is set aside
\* here: what is refuted is the absence of side effects.)
C7_AsStated ==
    [][\A s \in Calls :
         /\ (StopTakes(s) /\ slot = None) =>
                (slot' = None /\ child' = child /\ hkills' = hkills)
         /\ (StopReturns(s) /\ took[s] = None) =>
                /\ \/ res'[s] = OkUnit
                   \/ platform = "windows" /\ reapOut'[s] = "enum_fail"
                /\ slot' = None
                /\ hkills' = hkills
                /\ child' = child
                /\ foreign' = foreign]_vars

\* C7 (amended): a stop that finds the slot empty leaves it empty and sends
\* no kill through a handle, but it still runs the port reaper: when the
\* enumeration and the kill work, whatever listens on the fixed port (an
\* unrelated process included) is terminated and the port is free; when
\* they fail nothing is terminated.  It returns success, except on the
\* Windows branch when netstat cannot be run.
C7_StopWhenEmpty ==
    [][\A s \in Calls :
         /\ (StopTakes(s) /\ slot = None) =>
                /\ took'[s] = None
                /\ slot' = None
                /\ child' = child /\ foreign' = foreign /\ hkills' = hkills
         /\ (StopReturns(s) /\ took[s] = None) =>
                /\ slot = None /\ slot' = None
                /\ hkills' = hkills
                /\ \/ res'[s] = OkUnit
                   \/ platform = "windows" /\ reapOut'[s] = "enum_fail"
                /\ reapOut'[s] = "ok" => ~is_port_in_use'
                /\ reapOut'[s] # "ok" => (child' = child /\ foreign' = foreign)
                /\ \A c \in Calls : ~(child[c].st = "listening") => child'[c] = child[c]
      ]_vars

C7_Witness ==
    \E s \in Calls :
        /\ IsStop(s) /\ Done(s)
        /\ took[s] = None
        /\ reapOut[s] = "ok"
        /\ res[s] = OkUnit
        /\ everStored = {}
        /\ \E c \in Calls : IsStart(c) /\ probe0[c] = "busy"

\* Every call made so far began after the calls before it had returned.
AllSequential == \A c \in Calls : pc[c] # "idle" => seqBegin[c]

\* C8 as stated, for calls made one after the other: when a stop that took
\* a stored handle returns, the slot is empty, the managed child was sent a
\* kill and is not running, and the fixed port is free.
C8_AsStated ==
    [][\A s \in Calls :
         (AllSequential /\ StopReturns(s) /\ took[s] # None) =>
             /\ slot' = None
             /\ hkills'[took[s]] >= 1
             /\ child'[took[s]].st = "dead"
             /\ ~is_port_in_use']_vars

\* C8 (amended): when a stop that took a stored handle returns, the slot is
\* empty, the managed child was sent exactly one kill through its handle
\* and is not running; the fixed port is free at that moment when the
\* reaper's enumeration and kill worked.  When they failed, another process
\* that listens on the port (a child left by an earlier timed-out start,
\* an unrelated process) keeps it occupied.
C8_StopAfterStart ==
    [][\A s \in Calls :
         (StopReturns(s) /\ took[s] # None) =>
             /\ took[s] \in everStored
             /\ slot' = None
             /\ hkills'[took[s]] = 1
             /\ child'[took[s]].st = "dead"
             /\ reapOut'[s] = "ok" => ~is_port_in_use']_vars

C8_Witness ==
    \E s \in Calls :
        /\ IsStop(s) /\ Done(s)
        /\ took[s] # None
        /\ res[took[s]] = OkPort
        /\ reapOut[s] = "ok"
        /\ slot = None
        /\ child[took[s]].st = "dead"
        /\ ~is_port_in_use

\* The stop calls that took the handle of child ch out of the slot.
Takers(ch) == {s \in Calls : IsStop(s) /\ took[s] = ch}

\* C9: the handle of a stored child is taken by at most one stop call, the
\* taker sends the one kill, and while a stop call holds the registry lock
\* the slot is empty, so a concurrent stop that waited for the lock finds
\* nothing to take.
C9_OneStopTakes ==
    /\ \A ch \in Calls :
          /\ Cardinality(Takers(ch)) <= 1
          /\ Takers(ch) # {} => (ch \in everStored /\ hkills[ch] = 1 /\ slot # ch)
    /\ \A s \in Calls : (IsStop(s) /\ lock = s) => (pc[s] = "t_reap" /\ slot = None)
    /\ lock # None => IsStop(lock)

\* Two stop calls that overlapped, a handle in the slot: one took it, the
\* other took nothing.
C9_Witness ==
    \E s1 \in Calls, s2 \in Calls :
        /\ s1 < s2
        /\ IsStop(s1) /\ IsStop(s2)
        /\ Done(s1) /\ Done(s2)
        /\ ~seqBegin[s2]
        /\ \/ took[s1] # None /\ took[s2] = None
           \/ took[s1] = None /\ took[s2] # None

\* C10: a child whose handle is in the slot was sent no kill through it; a
\* child whose handle left the slot (taken by stop, or dropped when a start
\* overwrote the slot) was sent exactly one; no child is ever sent two; and
\* a stop whose kill failed has gone on to the reaper all the same, its
\* result being the reaper's.
C10_KillOnce ==
    /\ \A ch \in Calls :
          /\ hkills[ch] <= 1
          /\ ch \notin everStored => hkills[ch] = 0
          /\ (ch \in everStored /\ slot = ch) => hkills[ch] = 0
          /\ (ch \in everStored /\ slot # ch) => hkills[ch] = 1
          /\ hkillErr[ch] => hkills[ch] = 1
    /\ \A s \in Calls :
          (IsStop(s) /\ took[s] # None /\ hkillErr[took[s]]) =>
              /\ pc[s] \in {"t_reap", "done"}
              /\ Done(s) => res[s] = kill_process_on_port(reapOut[s])

\* One handle dropped by an overwrite and one taken by a stop whose kill
\* failed, each child killed once.
C10_Witness ==
    \E a \in Calls, b \in Calls, s \in Calls :
        /\ a # b
        /\ {a, b} \subseteq everStored
        /\ Takers(a) = {}
        /\ took[s] = b
        /\ hkills[a] = 1 /\ hkills[b] = 1
        /\ hkillErr[b]
        /\ Done(s) /\ res[s] = OkUnit

\* C11 as stated: every stop call that has returned returned success,
\* whatever the kill of the managed child and the reaper's enumeration and
\* kill did, on the Unix and on the Windows branch of the reaper.
C11_AsStated ==
    \A s \in Calls :
        (IsStop(s) /\ Done(s)) => res[s] = OkUnit

\* The launch mode the policy selects for a build and the two overrides.
SelectedMode(dev, fpython, fproduction) ==
    IF fpython THEN "script"
    ELSE IF dev /\ ~fproduction THEN "script"
    ELSE "binary"

\* The step of start call c that selects the mode and launches.
StartSpawns(c) == pc[c] = "s_spawn" /\ pc'[c] # "s_spawn"

\* C12: for the 8 combinations of development build, force-interpreted and
\* force-production, the variant a start call launches first is the script
\* exactly when force-interpreted is set or the build is a development one
\* without force-production, and the compiled binary otherwise; this holds
\* whatever the platform, the host's launch outcomes, the port and the
\* other calls do.  The step that decides changes the deciding call's
\* launch record, child, position and result, and nothing else; the three
\* inputs never change.
C12_ModeSelection ==
    [][/\ <<is_dev_mode, force_python, force_production>>' =
             <<is_dev_mode, force_python, force_production>>
       /\ \A c \in Calls :
            StartSpawns(c) =>
                /\ attempts'[c][1] =
                       SelectedMode(is_dev_mode, force_python, force_production)
                /\ UNCHANGED <<envVars, foreign, slot, lock, op, elapsed,
                               probe0, hkills, hkillErr, took, reapOut,
                               everStored, seqBegin, reaped>>
                /\ \A d \in Calls \ {c} :
                       /\ attempts'[d] = attempts[d]
                       /\ child'[d] = child[d]
                       /\ pc'[d] = pc[d]
                       /\ res'[d] = res[d]]_vars

\* A development build with both overrides set launched the script first.
C12_Witness ==
    \E c \in Calls :
        /\ is_dev_mode /\ force_python /\ force_production
        /\ attempts[c] # <<>>
        /\ attempts[c][1] = "script"

\* The lifecycle state of the supervised slot, read off the calls in
\* progress: Starting while a start call is between its entry checks and its
\* store or failure, Stopping while a stop call has taken the slot and not
\* returned, Running while a stored handle is in the slot.
Starting == \E c \in Calls : IsStart(c) /\ pc[c] \in {"s_spawn", "s_wait", "s_store"}
Stopping == \E s \in Calls : IsStop(s) /\ pc[s] = "t_reap"

\* C13 as stated: the slot holds a handle only in Running: it is empty
\* while a start is in Starting and while a stop is in Stopping, and the
\* handle it holds is that of a child that was spawned and whose readiness
\* wait saw a probe connect.
C13_AsStated ==
    /\ Starting => slot = None
    /\ Stopping => slot = None
    /\ slot # None =>
          /\ Spawned(slot)
          /\ Done(slot) /\ res[slot] = OkPort
          /\ elapsed[slot] < TimeoutPolls

\* C14 as stated: the registry lock is held only to read or write the
\* slot: no call holds it while it is about to spawn, is in its readiness
\* wait, or is about to run the port reaper's external commands.
C14_AsStated ==
    \A c \in Calls :
        lock = c => pc[c] \notin {"s_spawn", "s_wait", "t_reap"}

\* Stop call s (the one of the CloseRequested hook) is the last call made,
\* it has returned, and so has every call that began before it.
ShutdownOver(s) ==
    /\ IsStop(s) /\ Done(s)
    /\ \A c \in Calls : c < s => Done(c)
    /\ \A c \in Calls : c > s => pc[c] = "idle"

\* C15 as stated: once the shutdown stop has returned and the start calls
\* that were in flight have finished, the slot is empty and no child this
\* supervisor spawned is still running.
C15_AsStated ==
    \A s \in Calls :
        ShutdownOver(s) =>
            /\ slot = None
            /\ \A c \in Calls : ~Alive(c)

\* The steps of the readiness wait of start call c: a turn of the loop (a
\* probe, then success or a sleep), and the exit with the timeout error.
WaitSucceeds(c) == pc[c] = "s_wait" /\ pc'[c] = "s_store"
WaitSleeps(c) == pc[c] = "s_wait" /\ pc'[c] = "s_wait" /\ elapsed'[c] # elapsed[c]
WaitFails(c) == pc[c] = "s_wait" /\ pc'[c] = "done"

\* C16: with time counted in poll intervals, the readiness wait succeeds at
\* the first probe that connects (the port accepts a connection at that
\* step, the timeout has not elapsed, and every earlier probe failed); it
\* sleeps one interval after a probe that failed; it fails with the timeout
\* error only once the elapsed time has reached the timeout, each interval
\* of which followed a failed probe.  It never fails earlier and never
\* succeeds without a probe that connected.
C16_ReadinessWait ==
    [][\A c \in Calls :
         /\ WaitSucceeds(c) =>
                /\ is_port_in_use
                /\ elapsed[c] < TimeoutPolls
                /\ elapsed'[c] = elapsed[c]
                /\ res'[c] = NoRes
         /\ WaitSleeps(c) =>
                /\ ~is_port_in_use
                /\ elapsed[c] < TimeoutPolls
                /\ elapsed'[c] = elapsed[c] + 1
         /\ WaitFails(c) =>
                /\ elapsed[c] = TimeoutPolls
                /\ res'[c] = TimeoutErr(WEBSOCKET_PORT, ReadyTimeoutSeconds)
         /\ (pc[c] = "s_wait" /\ elapsed[c] < TimeoutPolls /\ is_port_in_use
               /\ <<pc[c], elapsed[c], res[c]>>' # <<pc[c], elapsed[c], res[c]>>)
              => WaitSucceeds(c)
         /\ pc'[c] = "s_store" => pc[c] \in {"s_wait", "s_store"}]_vars

\* A start whose first probe failed and whose second connected, stored.
C16_Witness ==
    \E c \in Calls :
        /\ c \in everStored
        /\ elapsed[c] = 1
        /\ res[c] = OkPort
        /\ child[c].st = "listening"

\* Start call c ended in the readiness timeout.
TimedOut(c) ==
    IsStart(c) /\ Done(c) /\ res[c] = TimeoutErr(WEBSOCKET_PORT, ReadyTimeoutSeconds)

\* C17 as stated: the child of a start that timed out is left running, and
\* any later stop terminates it: when a stop that began after the timed-out
\* start had returned itself returns, that child is not running, whether it
\* listens on the port or not.
C17_AsStated ==
    [][\A c \in Calls, s \in Calls :
         /\ (WaitFails(c) /\ Alive(c)) => child'[c] = child[c]
         /\ (TimedOut(c) /\ c < s /\ seqBegin[s] /\ StopReturns(s)) => ~Alive(c)'
      ]_vars

\* C18: under fair scheduling every start and every stop call that was
\* made eventually returns, whatever the other calls do: a call waiting for
\* the registry lock gets it, and the readiness wait makes at most
\* TimeoutPolls failed probes (timeout / poll interval) before it ends.
\* (A call that was made never goes back to idle and one that returned
\* stays so, and at most MaxCalls calls are made: every call made eventually
\* returns exactly when, from some point on, no call is in progress.)
C18_CallsReturn ==
    /\ <>[](\A c \in Calls : pc[c] \in {"idle", "done"})
    /\ [](\A c \in Calls : elapsed[c] <= TimeoutPolls)

\* Three calls that overlapped have all returned, among them a start that
\* waited out the whole timeout and two stops.
C18_Witness ==
    /\ \A c \in Calls : Done(c)
    /\ \A c \in Calls : c > 1 => ~seqBegin[c]
    /\ \E c \in Calls : TimedOut(c) /\ elapsed[c] = TimeoutPolls
    /\ \E s1 \in Calls, s2 \in Calls : s1 # s2 /\ IsStop(s1) /\ IsStop(s2)

\* The step at which start call c returns success.
StartReturnsOk(c) ==
    IsStart(c) /\ pc[c] # "done" /\ pc'[c] = "done" /\ res'[c].tag = "Ok"

\* C19: a start call returns success only at its entry check with a handle
\* in the slot, at its pre-spawn probe with the port accepting a connection,
\* or at its store, which it reaches only from a readiness probe that
\* connected; a call that spawned a child returns success at the store and
\* nowhere else, and a call that spawned never stores unless such a probe
\* connected.
C19_SuccessNeedsProbe ==
    [][\A c \in Calls :
         /\ StartReturnsOk(c) =>
                /\ res'[c] = OkPort
                /\ \/ pc[c] = "s_check" /\ slot # None /\ ~Spawned(c)
                   \/ pc[c] = "s_probe" /\ is_port_in_use /\ ~Spawned(c)
                   \/ pc[c] = "s_store" /\ Spawned(c) /\ elapsed[c] < TimeoutPolls
         /\ (pc[c] # "s_store" /\ pc'[c] = "s_store") =>
                /\ pc[c] = "s_wait"
                /\ Spawned(c)
                /\ is_port_in_use
         /\ (Spawned(c) /\ StartReturnsOk(c)) => pc[c] = "s_store"
         /\ (pc[c] = "s_spawn" /\ Spawned(c)') => pc'[c] = "s_wait"]_vars

\* One start stored its handle after a failed and a successful probe, and a
\* second start returned success on seeing the slot hold that handle.
C19_Witness ==
    \E c1 \in Calls, c2 \in Calls :
        /\ c1 \in everStored /\ res[c1] = OkPort /\ elapsed[c1] > 0
        /\ IsStart(c2) /\ Done(c2) /\ res[c2] = OkPort
        /\ probe0[c2] = "na" /\ ~Spawned(c2)

\* C20 as stated: the child whose handle is in the slot was not terminated
\* by the supervisor: no kill was sent through its handle (by stop or by
\* the drop of the handle) and the port reaper did not kill it.
C20_AsStated ==
    slot # None =>
        /\ hkills[slot] = 0
        /\ slot \notin reaped

====
